---- MODULE Spec2Model ----
(***************************************************************************)
(* Model of the grayscale image tool of src/dash_app/app.py: the image     *)
(* processing functions (median filter, histogram analysis, level          *)
(* adjustment, thresholding) and the Dash callbacks that wire them to the  *)
(* stores, sliders and results table of the page.                          *)
(*                                                                         *)
(* A grid (numpy uint8 array of shape (h, w)) is a sequence of h rows,     *)
(* each a sequence of w integers in 0..255.  A text shown on the page      *)
(* (f"{n:,}", f"{x:.2f}") is a sequence of one-character strings, so that  *)
(* formatting and parsing are computed and not assumed.                    *)
(***************************************************************************)
EXTENDS Integers, Sequences, FiniteSets, TLC

\* minlength=256 of compute_histogram, range(256) of analyse_histogram.
Levels == 256

\* Python's None in a store or property that otherwise holds a structure.
None == [none |-> TRUE]
\* Python's None where a text is expected (a missing filename).
NoText == "(None)"

----------------------------------------------------------------------------
(* Grids *)

Height(arr) == Len(arr)
Width(arr) == IF Len(arr) = 0 THEN 0 ELSE Len(arr[1])
Pixels(arr) == {p \in (1..Height(arr)) \X (1..Width(arr)) : TRUE}

MinOf(a, b) == IF a <= b THEN a ELSE b
MaxOf(a, b) == IF a >= b THEN a ELSE b

\* ndarray.astype(np.uint8) on an integer value: wraps modulo 256.
astype_uint8(v) == v % 256

\* arr_to_b64: Image.fromarray(arr.astype(np.uint8)) saved as PNG, base64.
arr_to_b64(arr) ==
    [png |-> [y \in 1..Height(arr) |-> [x \in 1..Width(arr) |-> astype_uint8(arr[y][x])]]]

\* b64_to_arr: the PNG decoded and converted to mode "L".
b64_to_arr(b64str) == b64str.png

\* arr_to_data_uri: "data:image/png;base64," + arr_to_b64(arr).
arr_to_data_uri(arr) == [uri |-> arr_to_b64(arr)]

----------------------------------------------------------------------------
(* apply_median: scipy.ndimage.median_filter(arr, size=k), default         *)
(* mode="reflect" (d c b a | a b c d | d c b a), origin 0: the output      *)
(* pixel is element k*k // 2 of the sorted k x k window.                   *)

\* 0-based index i of an axis of length n under reflect extension.
Reflect(i, n) ==
    LET m == i % (2 * n)
    IN  IF m < n THEN m ELSE 2 * n - 1 - m

Offsets(k) == (-(k \div 2) .. (k \div 2)) \X (-(k \div 2) .. (k \div 2))

\* Faulty variant: mode="constant", the grid extended with zeros.
WindowAt_Constant(arr, y, x, k) ==
    [o \in Offsets(k) |->
        IF /\ y + o[1] \in 1..Height(arr)
           /\ x + o[2] \in 1..Width(arr)
        THEN arr[y + o[1]][x + o[2]]
        ELSE 0]

WindowAt(arr, y, x, k) ==
    [o \in Offsets(k) |->
        arr[Reflect(y - 1 + o[1], Height(arr)) + 1][Reflect(x - 1 + o[2], Width(arr)) + 1]]

MedianAt(arr, y, x, k) ==
    LET win == WindowAt(arr, y, x, k)
        rank == (k * k) \div 2
        Less(v) == Cardinality({o \in Offsets(k) : win[o] < v})
        LessEq(v) == Cardinality({o \in Offsets(k) : win[o] <= v})
    IN  CHOOSE v \in {win[o] : o \in Offsets(k)} : Less(v) <= rank /\ rank < LessEq(v)

apply_median(arr, kernel_size) ==
    [y \in 1..Height(arr) |->
        [x \in 1..Width(arr) |-> astype_uint8(MedianAt(arr, y, x, kernel_size))]]

----------------------------------------------------------------------------
(* compute_histogram / analyse_histogram *)

\* np.bincount(arr.ravel(), minlength=256): bin i counts the pixels equal to i.
compute_histogram(arr) ==
    LET px == Pixels(arr)
        present == {arr[p[1]][p[2]] : p \in px}
    IN  [i \in 0..(Levels - 1) |->
            IF i \in present THEN Cardinality({p \in px : arr[p[1]][p[2]] = i}) ELSE 0]

\* sum(hist), added pairwise so that the evaluation stays shallow.
RECURSIVE SumRange(_, _, _)
SumRange(hist, lo, hi) ==
    IF lo > hi THEN 0
    ELSE IF lo = hi THEN hist[lo]
    ELSE LET mid == (lo + hi) \div 2
         IN  SumRange(hist, lo, mid) + SumRange(hist, mid + 1, hi)

\* Faulty variants of the tail test: a strict comparison (cum / total > 0.01),
\* and the fraction 0.99 in place of 0.01.
ReachesTail_Strict(cum, total) == 100 * cum > total
ReachesTail_99(cum, total) == 100 * cum >= 99 * total

\* cum / total >= 0.01 on Python floats.  cum / total is the double nearest
\* the quotient and 0.01 the double nearest 1/100, so while 100 * total is
\* far below 2^53 the comparison is that of the exact quotient with 1/100.
ReachesTail(cum, total) == 100 * cum >= total

\* One iteration of either scan loop: cum += hist[i]; if cum / total >= 0.01
\* then the bound is i and the loop breaks, else i moves by dir.
ScanStep(hist, total, dir, s) ==
    IF s.done THEN s
    ELSE LET c == s.cum + hist[s.i]
         IN  IF ReachesTail(c, total)
             THEN [i |-> s.i, cum |-> c, done |-> TRUE, val |-> s.i]
             ELSE [i |-> s.i + dir, cum |-> c, done |-> FALSE, val |-> s.val]

\* n iterations of the loop from loop state s (none once the loop has broken).
RECURSIVE ScanLoop(_, _, _, _, _)
ScanLoop(hist, total, dir, n, s) ==
    IF n = 0 THEN s
    ELSE IF n = 1 THEN ScanStep(hist, total, dir, s)
    ELSE LET half == ScanLoop(hist, total, dir, n \div 2, s)
         IN  IF half.done THEN half
             ELSE ScanLoop(hist, total, dir, n - (n \div 2), half)

\* cum, min_val = 0, 0; for i in range(256): ...
ScanUp(hist, total) ==
    ScanLoop(hist, total, 1, Levels,
             [i |-> 0, cum |-> 0, done |-> FALSE, val |-> 0]).val

\* cum, max_val = 0, 255; for i in range(255, -1, -1): ...
ScanDown(hist, total) ==
    ScanLoop(hist, total, -1, Levels,
             [i |-> Levels - 1, cum |-> 0, done |-> FALSE, val |-> Levels - 1]).val

\* Faulty variant: (max_val - min_val) <= 200.
Skewed_Inclusive(min_val, max_val) == (max_val - min_val) <= 200

\* (max_val - min_val) < 200
Skewed(min_val, max_val) == (max_val - min_val) < 200

analyse_histogram(hist) ==
    LET total == SumRange(hist, 0, Levels - 1)
    IN  IF total = 0
        THEN [skewed |-> FALSE, min_val |-> 0, max_val |-> Levels - 1]
        ELSE LET min_val == ScanUp(hist, total)
                 max_val == ScanDown(hist, total)
             IN  [skewed |-> Skewed(min_val, max_val),
                  min_val |-> min_val, max_val |-> max_val]

----------------------------------------------------------------------------
(* apply_level_adjustment *)

\* np.clip((v - mn) / r * 255, 0, 255).astype(np.uint8) for one pixel, r > 0.
\* astype truncates the clipped float toward zero.  For all 0 <= v <= 255 and
\* 0 <= mn < mx <= 255 the double (v - mn) / r * 255 truncates to the floor
\* of the exact quotient (v - mn) * 255 / r (the two roundings never take an
\* integer quotient below itself), which is what is computed here.
LevelPixel(v, mn, r) ==
    LET a == (v - mn) * 255
    IN  IF a <= 0 THEN 0
        ELSE IF a >= 255 * r THEN 255
        ELSE astype_uint8(a \div r)

\* Faulty variant: the range taken as the number of levels, mx - mn + 1.
apply_level_adjustment_RangePlusOne(arr, mn, mx) ==
    LET r == mx - mn + 1
    IN  IF r <= 1
        THEN arr
        ELSE [y \in 1..Height(arr) |-> [x \in 1..Width(arr) |-> LevelPixel(arr[y][x], mn, r)]]

apply_level_adjustment(arr, mn, mx) ==
    LET r == mx - mn
    IN  IF r <= 0
        THEN arr
        ELSE [y \in 1..Height(arr) |-> [x \in 1..Width(arr) |-> LevelPixel(arr[y][x], mn, r)]]

----------------------------------------------------------------------------
(* apply_threshold / count_white *)

\* Faulty variants: white written as 1 (a boolean mask cast to uint8), and
\* the two values of np.where exchanged.
ThresholdPixel_WhiteOne(v, t) == IF v <= t THEN 0 ELSE 1
ThresholdPixel_Inverted(v, t) == IF v <= t THEN 255 ELSE 0

\* np.where(arr <= t, np.uint8(0), np.uint8(255)) for one pixel.
ThresholdPixel(v, t) == IF v <= t THEN 0 ELSE 255

apply_threshold(arr, t) ==
    [y \in 1..Height(arr) |-> [x \in 1..Width(arr) |-> ThresholdPixel(arr[y][x], t)]]

count_white(arr) == Cardinality({p \in Pixels(arr) : arr[p[1]][p[2]] = 255})

----------------------------------------------------------------------------
(* Texts: f"{n:,}", str.replace(",", ""), int(...), f"{x:.2f}" *)

Digits == <<"0", "1", "2", "3", "4", "5", "6", "7", "8", "9">>
DigitChar(d) == Digits[d + 1]
DigitVal(c) == CHOOSE d \in 0..9 : Digits[d + 1] = c

\* The placeholder of white-count-1, white-count-2 and diff-count in the
\* layout: the one-character text U+2014 (an em dash).
Dash == <<"U+2014">>

RECURSIVE NatDigits(_)
NatDigits(n) ==
    IF n < 10 THEN <<DigitChar(n)>>
    ELSE NatDigits(n \div 10) \o <<DigitChar(n % 10)>>

RECURSIVE GroupDigits(_)
GroupDigits(n) ==
    IF n < 1000 THEN NatDigits(n)
    ELSE GroupDigits(n \div 1000)
         \o <<",", DigitChar((n % 1000) \div 100), DigitChar((n % 100) \div 10), DigitChar(n % 10)>>

\* f"{n:,}"
fmt_comma(n) == IF n < 0 THEN <<"-">> \o GroupDigits(-n) ELSE GroupDigits(n)

\* str(cnt).replace(",", "")
remove_commas(txt) == SelectSeq(txt, LAMBDA c : c # ",")

RECURSIVE ParseNat(_, _)
ParseNat(txt, acc) ==
    IF txt = <<>> THEN acc
    ELSE ParseNat(Tail(txt), 10 * acc + DigitVal(Head(txt)))

\* int(txt) for an optional minus sign followed by decimal digits.
parse_int(txt) ==
    IF Head(txt) = "-" THEN -ParseNat(Tail(txt), 0) ELSE ParseNat(txt, 0)

\* f"{x:.2f}" of a value of the given sign whose magnitude rounds to h hundredths.
fmt_2f(negative, h) ==
    (IF negative THEN <<"-">> ELSE <<>>)
    \o NatDigits(h \div 100) \o <<".", DigitChar((h % 100) \div 10), DigitChar(h % 10)>>

\* The hundredths f"{x:.2f}" can show for the double x = num / den * 100
\* (num >= 0, den > 0).  The format rounds the double correctly, and the
\* double is within 2 ulp of num * 100 / den, so off a tie the result is the
\* nearest hundredth of the exact quotient; on an exact tie (den a multiple
\* of 32) the direction depends on the double's rounding error, and both
\* neighbours are kept.
Hundredths(num, den) ==
    LET q == (num * 10000) \div den
        rem == (num * 10000) % den
    IN  IF 2 * rem < den THEN {q}
        ELSE IF 2 * rem > den THEN {q + 1}
        ELSE {q, q + 1}

\* ratio_val = (diff_val / c1 * 100) if c1 > 0 else 0.0; f"{ratio_val:.2f}"
RatioTexts(diff_val, c1) ==
    IF c1 > 0
    THEN {fmt_2f(diff_val < 0, h) :
            h \in Hundredths(IF diff_val < 0 THEN -diff_val ELSE diff_val, c1)}
    ELSE {fmt_2f(FALSE, 0)}

----------------------------------------------------------------------------
(* Crop rectangle of on_apply.  A coordinate of a drawn shape is a float;  *)
(* it is kept here in half units (c stands for c / 2), which is enough to  *)
(* tell Python's round (ties to even) from the other roundings.            *)

\* int(round(c / 2))
py_round(c) ==
    IF c % 2 = 0 THEN c \div 2
    ELSE LET lo == (c - 1) \div 2
         IN  IF lo % 2 = 0 THEN lo ELSE lo + 1

\* x0 = max(0, int(round(min(crop["x0"], crop["x1"])))) ... y1 = min(h, ...)
CropBox(crop, h, w) ==
    [x0 |-> MaxOf(0, py_round(MinOf(crop.x0, crop.x1))),
     x1 |-> MinOf(w, py_round(MaxOf(crop.x0, crop.x1))),
     y0 |-> MaxOf(0, py_round(MinOf(crop.y0, crop.y1))),
     y1 |-> MinOf(h, py_round(MaxOf(crop.y0, crop.y1)))]

\* Faulty variant: only an empty rectangle is refused.
Degenerate_LessThanOne(box) == (box.x1 - box.x0) < 1 \/ (box.y1 - box.y0) < 1

\* (x1 - x0) < 2 or (y1 - y0) < 2
Degenerate(box) == (box.x1 - box.x0) < 2 \/ (box.y1 - box.y0) < 2

\* original[y0:y1, x0:x1]
crop_slice(original, box) ==
    [y \in 1..(box.y1 - box.y0) |->
        [x \in 1..(box.x1 - box.x0) |-> original[box.y0 + y][box.x0 + x]]]

----------------------------------------------------------------------------
(* The page: stores, component properties, requests in flight *)

VARIABLES
    store_original,       \* dcc.Store store-original: base64 PNG or None
    store_filename,       \* dcc.Store store-filename
    crop_area_style,      \* crop-area style
    apply_disabled,       \* apply-btn disabled
    store_crop_coords,    \* dcc.Store store-crop-coords
    section_style,        \* styles of section-filter, section-level, section-threshold
    store_adjusted,       \* dcc.Store store-adjusted
    store_histogram,      \* dcc.Store store-histogram
    store_histogram_raw,  \* dcc.Store store-histogram-raw
    cropped_img,          \* cropped-img src
    filtered_img,         \* filtered-img src (and filtered-level-img src)
    adjustment_info,      \* adjustment-info className
    t1_slider,            \* t1-slider value
    t2_slider,            \* t2-slider value
    binary1_img,          \* binary1-img src
    binary2_img,          \* binary2-img src
    diff_img,             \* diff-img src
    white_count_1,        \* white-count-1 children
    white_count_2,        \* white-count-2 children
    diff_count,           \* diff-count children
    t1_display,           \* t1-display children
    t2_display,           \* t2-display children
    results_table,        \* results-table data
    store_table,          \* dcc.Store store-table
    export_disabled,      \* export-btn disabled
    n_clicks,             \* add-table-btn n_clicks
    threshold_reqs,       \* on_threshold requests sent and not yet answered
    add_reqs,             \* on_add_table requests sent and not yet answered
    accepted,             \* on_add_table calls that appended a row (history)
    last,                 \* the callback that returned last, and what it returned
    call                  \* a direct call of one processing function and its result

upload_outs == <<store_original, store_filename, crop_area_style>>
crop_outs == <<store_crop_coords, apply_disabled>>
apply_outs == <<store_adjusted, store_histogram, store_histogram_raw, cropped_img,
                filtered_img, adjustment_info>>
sliders == <<t1_slider, t2_slider>>
threshold_outs == <<binary1_img, binary2_img, diff_img, white_count_1, white_count_2,
                    diff_count, t1_display, t2_display>>
table_outs == <<results_table, store_table, export_disabled>>
requests == <<threshold_reqs, add_reqs>>

vars == <<upload_outs, crop_outs, section_style, apply_outs, sliders, threshold_outs,
          table_outs, n_clicks, requests, accepted, last, call>>

Hidden == [display |-> "none"]
Shown == [display |-> "block"]

NoCall == [fn |-> "none"]

\* The layout, by group of properties: every store empty but store-table
\* (data=[]), the apply and export buttons disabled, the sections hidden,
\* the sliders at 128 and 200, the counts a dash.
LoadUpload ==
    /\ store_original = None
    /\ store_filename = NoText
    /\ crop_area_style = Hidden

LoadCrop ==
    /\ apply_disabled = TRUE
    /\ store_crop_coords = None

LoadApply ==
    /\ section_style = [filter |-> Hidden, level |-> Hidden, threshold |-> Hidden]
    /\ store_adjusted = None
    /\ store_histogram = None
    /\ store_histogram_raw = None
    /\ cropped_img = None
    /\ filtered_img = None
    /\ adjustment_info = "info-box"
    /\ t1_slider = 128
    /\ t2_slider = 200

LoadThreshold ==
    /\ binary1_img = None
    /\ binary2_img = None
    /\ diff_img = None
    /\ white_count_1 = Dash
    /\ white_count_2 = Dash
    /\ diff_count = Dash
    /\ t1_display = <<"1", "2", "8">>
    /\ t2_display = <<"2", "0", "0">>

LoadTable ==
    /\ results_table = <<>>
    /\ store_table = <<>>
    /\ export_disabled = TRUE
    /\ n_clicks = 0
    /\ accepted = 0

NoEvent == last = [cb |-> "none", ret |-> "none"]

PageLoad ==
    /\ LoadUpload
    /\ LoadCrop
    /\ LoadApply
    /\ LoadThreshold
    /\ LoadTable
    /\ threshold_reqs = <<>>
    /\ add_reqs = <<>>
    /\ NoEvent

----------------------------------------------------------------------------
(* Callbacks *)

\* decode_upload_to_gray: the uploaded data URI decoded, converted to "L".
\* The uploaded files are single-channel images, which convert("L") keeps.
decode_upload_to_gray(contents) == contents.uri.png

\* An on_threshold request: the renderer sends the two Inputs with the
\* States store-adjusted and store-histogram as they are when it is sent.
ThresholdRequest(t1, t2, adjusted_b64, histogram) ==
    [t1 |-> t1, t2 |-> t2, adjusted_b64 |-> adjusted_b64, histogram |-> histogram]

\* Faulty variant: on_upload returns no_update for store-crop-coords, so the
\* rectangle of the image before stays stored.
on_upload_KeepsCrop(contents, filename) ==
    /\ IF contents = None
       THEN /\ UNCHANGED <<upload_outs, crop_outs, section_style>>
            /\ last' = [cb |-> "on_upload", ret |-> "no_update"]
       ELSE LET arr == decode_upload_to_gray(contents)
            IN  /\ store_original' = arr_to_b64(arr)
                /\ store_filename' = (IF filename = NoText \/ filename = "" THEN "unknown"
                                      ELSE filename)
                /\ crop_area_style' = Shown
                /\ apply_disabled' = TRUE
                /\ UNCHANGED store_crop_coords
                /\ section_style' = [filter |-> Hidden, level |-> Hidden, threshold |-> Hidden]
                /\ last' = [cb |-> "on_upload", ret |-> "update"]
    /\ UNCHANGED <<apply_outs, sliders, threshold_outs, table_outs, n_clicks, requests,
                   accepted, call>>

\* 1. on_upload(contents, filename)
on_upload(contents, filename) ==
    /\ IF contents = None
       THEN /\ UNCHANGED <<upload_outs, crop_outs, section_style>>
            /\ last' = [cb |-> "on_upload", ret |-> "no_update"]
       ELSE LET arr == decode_upload_to_gray(contents)
            IN  /\ store_original' = arr_to_b64(arr)
                /\ store_filename' = (IF filename = NoText \/ filename = "" THEN "unknown"
                                      ELSE filename)
                /\ crop_area_style' = Shown
                /\ apply_disabled' = TRUE
                /\ store_crop_coords' = None
                /\ section_style' = [filter |-> Hidden, level |-> Hidden, threshold |-> Hidden]
                /\ last' = [cb |-> "on_upload", ret |-> "update"]
    /\ UNCHANGED <<apply_outs, sliders, threshold_outs, table_outs, n_clicks, requests,
                   accepted, call>>

\* relayoutData: the "shapes" key (present or not, with its list) and the
\* "shapes[i].p" keys as triples <<i, p, value>>; other stands for any other
\* key (a zoom, an autosize).
HasShapeKeys(relayout_data) == relayout_data.keys # {}
LastIdx(relayout_data) ==
    CHOOSE i \in {k[1] : k \in relayout_data.keys} :
        \A k \in relayout_data.keys : k[1] <= i
\* relayout_data.get(f"shapes[{i}].{prop}") is not None, and its value.
HasKey(relayout_data, i, prop) == \E k \in relayout_data.keys : k[1] = i /\ k[2] = prop
KeyVal(relayout_data, i, prop) ==
    (CHOOSE k \in relayout_data.keys : k[1] = i /\ k[2] = prop)[3]

\* 2. on_relayout(relayout_data)
on_relayout(relayout_data) ==
    /\ IF ~relayout_data.has_shapes /\ ~HasShapeKeys(relayout_data) /\ ~relayout_data.other
       THEN /\ UNCHANGED crop_outs
            /\ last' = [cb |-> "on_relayout", ret |-> "no_update"]
       ELSE IF relayout_data.has_shapes
       THEN IF relayout_data.shapes # <<>>
            THEN LET s == relayout_data.shapes[Len(relayout_data.shapes)]
                 IN  /\ store_crop_coords' = [x0 |-> s.x0, y0 |-> s.y0, x1 |-> s.x1, y1 |-> s.y1]
                     /\ apply_disabled' = FALSE
                     /\ last' = [cb |-> "on_relayout", ret |-> "update"]
            ELSE /\ store_crop_coords' = None
                 /\ apply_disabled' = TRUE
                 /\ last' = [cb |-> "on_relayout", ret |-> "update"]
       ELSE IF HasShapeKeys(relayout_data)
               /\ \A prop \in {"x0", "y0", "x1", "y1"} :
                      HasKey(relayout_data, LastIdx(relayout_data), prop)
       THEN LET i == LastIdx(relayout_data)
            IN  /\ store_crop_coords' = [x0 |-> KeyVal(relayout_data, i, "x0"),
                                         y0 |-> KeyVal(relayout_data, i, "y0"),
                                         x1 |-> KeyVal(relayout_data, i, "x1"),
                                         y1 |-> KeyVal(relayout_data, i, "y1")]
                /\ apply_disabled' = FALSE
                /\ last' = [cb |-> "on_relayout", ret |-> "update"]
       ELSE /\ UNCHANGED crop_outs
            /\ last' = [cb |-> "on_relayout", ret |-> "no_update"]
    /\ UNCHANGED <<upload_outs, section_style, apply_outs, sliders, threshold_outs,
                   table_outs, n_clicks, requests, accepted, call>>

\* if not original_b64 or not crop: ...; if (x1 - x0) < 2 or (y1 - y0) < 2: ...
ApplyRefused(original_b64, crop) ==
    IF original_b64 = None \/ crop = None
    THEN TRUE
    ELSE LET original == b64_to_arr(original_b64)
         IN  Degenerate(CropBox(crop, Height(original), Width(original)))

\* 3. on_apply(n_clicks, original_b64, crop, kernel_size).  Its outputs
\* t1-slider and t2-slider are the Inputs of on_threshold, so the renderer
\* sends an on_threshold request once the outputs are in place.
on_apply(original_b64, crop, kernel_size) ==
    /\ IF ApplyRefused(original_b64, crop)
       THEN /\ UNCHANGED <<apply_outs, section_style, sliders, threshold_reqs>>
            /\ last' = [cb |-> "on_apply", ret |-> "no_update"]
       ELSE LET original == b64_to_arr(original_b64)
                box == CropBox(crop, Height(original), Width(original))
                cropped == crop_slice(original, box)
                filtered == apply_median(cropped, kernel_size)
                raw_hist == compute_histogram(filtered)
                analysis == analyse_histogram(raw_hist)
                adjusted == IF analysis.skewed
                            THEN apply_level_adjustment(filtered, analysis.min_val,
                                                        analysis.max_val)
                            ELSE filtered
                histogram == compute_histogram(adjusted)
            IN  /\ store_adjusted' = arr_to_b64(adjusted)
                /\ store_histogram' = histogram
                /\ store_histogram_raw' = raw_hist
                /\ cropped_img' = arr_to_data_uri(cropped)
                /\ filtered_img' = arr_to_data_uri(filtered)
                /\ adjustment_info' = (IF analysis.skewed THEN "info-box warning visible"
                                       ELSE "info-box info visible")
                /\ section_style' = [filter |-> Shown, level |-> Shown, threshold |-> Shown]
                /\ t1_slider' = 128
                /\ t2_slider' = 200
                /\ threshold_reqs' = Append(threshold_reqs,
                                            ThresholdRequest(128, 200, store_adjusted',
                                                             store_histogram'))
                /\ last' = [cb |-> "on_apply", ret |-> "update"]
    /\ UNCHANGED <<upload_outs, crop_outs, threshold_outs, table_outs, n_clicks, add_reqs,
                   accepted, call>>


\* One pixel of diff_rgba: the grey value, then (in the order of the code's
\* masked assignments, a later one overwriting an earlier one) the 50% blend
\* with (41, 128, 185) where mask_diff, white where mask_both_white, 40 where
\* mask_both_black.  (v * 0.5 + c * 0.5).astype(np.uint8) is (v + c) // 2.
DiffPixel(v, b1, b2) ==
    LET mask_diff == b1 = 255 /\ b2 = 0
        mask_both_white == b1 = 255 /\ b2 = 255
        mask_both_black == b1 = 0 /\ b2 = 0
    IN  IF mask_both_black THEN <<40, 40, 40, 255>>
        ELSE IF mask_both_white THEN <<255, 255, 255, 255>>
        ELSE IF mask_diff
        THEN <<astype_uint8((v + 41) \div 2), astype_uint8((v + 128) \div 2),
               astype_uint8((v + 185) \div 2), 255>>
        ELSE <<v, v, v, 255>>

\* Faulty variant: mask_diff = (bin1 != bin2), the pixels the two differ in.
DiffCount_Xor(bin1, bin2) ==
    Cardinality({p \in Pixels(bin1) : bin1[p[1]][p[2]] # bin2[p[1]][p[2]]})

\* mask_diff = (bin1 == 255) & (bin2 == 0); diff_count = int(np.sum(mask_diff))
DiffCount(bin1, bin2) ==
    Cardinality({p \in Pixels(bin1) : bin1[p[1]][p[2]] = 255 /\ bin2[p[1]][p[2]] = 0})

\* 4b. on_threshold(t1, t2, adjusted_b64, histogram), answering request i.
on_threshold(i) ==
    LET req == threshold_reqs[i]
    IN  /\ threshold_reqs' = [j \in 1..(Len(threshold_reqs) - 1) |->
                                 IF j < i THEN threshold_reqs[j] ELSE threshold_reqs[j + 1]]
        /\ IF req.adjusted_b64 = None \/ req.histogram = None
           THEN /\ UNCHANGED threshold_outs
                /\ last' = [cb |-> "on_threshold", ret |-> "no_update"]
           ELSE LET adjusted == b64_to_arr(req.adjusted_b64)
                    bin1 == apply_threshold(adjusted, req.t1)
                    bin2 == apply_threshold(adjusted, req.t2)
                    diff_rgba == [y \in 1..Height(adjusted) |->
                                    [x \in 1..Width(adjusted) |->
                                        DiffPixel(adjusted[y][x], bin1[y][x], bin2[y][x])]]
                IN  /\ binary1_img' = arr_to_data_uri(bin1)
                    /\ binary2_img' = arr_to_data_uri(bin2)
                    /\ diff_img' = [uri |-> [png_rgba |-> diff_rgba]]
                    /\ white_count_1' = fmt_comma(count_white(bin1))
                    /\ white_count_2' = fmt_comma(count_white(bin2))
                    /\ diff_count' = fmt_comma(DiffCount(bin1, bin2))
                    /\ t1_display' = NatDigits(req.t1)
                    /\ t2_display' = NatDigits(req.t2)
                    /\ last' = [cb |-> "on_threshold", ret |-> "update"]
        /\ UNCHANGED <<upload_outs, crop_outs, section_style, apply_outs, sliders,
                       table_outs, n_clicks, add_reqs, accepted, call>>

\* The user drags a slider (updatemode="drag"): the value changes and the
\* renderer sends an on_threshold request.
move_t1(v) ==
    /\ v # t1_slider
    /\ t1_slider' = v
    /\ threshold_reqs' = Append(threshold_reqs,
                                ThresholdRequest(v, t2_slider, store_adjusted, store_histogram))
    /\ last' = [cb |-> "t1-slider", ret |-> "none"]
    /\ UNCHANGED <<upload_outs, crop_outs, section_style, apply_outs, t2_slider,
                   threshold_outs, table_outs, n_clicks, add_reqs, accepted, call>>

move_t2(v) ==
    /\ v # t2_slider
    /\ t2_slider' = v
    /\ threshold_reqs' = Append(threshold_reqs,
                                ThresholdRequest(t1_slider, v, store_adjusted, store_histogram))
    /\ last' = [cb |-> "t2-slider", ret |-> "none"]
    /\ UNCHANGED <<upload_outs, crop_outs, section_style, apply_outs, t1_slider,
                   threshold_outs, table_outs, n_clicks, add_reqs, accepted, call>>

\* A click on add-table-btn: n_clicks changes and the renderer sends an
\* on_add_table request with the States as they are on the page.
click_add_table ==
    /\ n_clicks' = n_clicks + 1
    /\ add_reqs' = Append(add_reqs,
                          [filename |-> store_filename, t1 |-> t1_slider, t2 |-> t2_slider,
                           cnt1 |-> white_count_1, cnt2 |-> white_count_2,
                           table_data |-> store_table])
    /\ last' = [cb |-> "add-table-btn", ret |-> "none"]
    /\ UNCHANGED <<upload_outs, crop_outs, section_style, apply_outs, sliders,
                   threshold_outs, table_outs, threshold_reqs, accepted, call>>

\* if not filename or cnt1 == dash: return no_update, no_update, no_update
AddRefused(filename, cnt1) == filename = NoText \/ filename = "" \/ cnt1 = Dash

\* Faulty variant: return no_update, no_update, False.
add_table_no_update_EnablesExport ==
    UNCHANGED <<results_table, store_table>> /\ export_disabled' = FALSE

\* return no_update, no_update, no_update
add_table_no_update == UNCHANGED <<results_table, store_table, export_disabled>>

\* The row on_add_table appends, with the text ratio_text for the ratio.
ResultRow(filename, cnt1, cnt2, ratio_text) ==
    LET c1 == parse_int(remove_commas(cnt1))
        c2 == parse_int(remove_commas(cnt2))
        diff_val == c1 - c2
    IN  [filename |-> filename, count1 |-> fmt_comma(c1), count2 |-> fmt_comma(c2),
         diff |-> fmt_comma(diff_val), ratio |-> ratio_text]

\* Faulty variant: the ratio taken over count2.
RatioOf_OverCount2(cnt1, cnt2) ==
    LET c1 == parse_int(remove_commas(cnt1))
        c2 == parse_int(remove_commas(cnt2))
    IN  RatioTexts(c1 - c2, c2)

\* diff_val and c1 as on_add_table computes them, for the ratio.
RatioOf(cnt1, cnt2) ==
    LET c1 == parse_int(remove_commas(cnt1))
        c2 == parse_int(remove_commas(cnt2))
    IN  RatioTexts(c1 - c2, c1)

\* 5. on_add_table(n_clicks, filename, t1, t2, cnt1, cnt2, table_data),
\* answering request i.
on_add_table(i) ==
    LET req == add_reqs[i]
    IN  /\ add_reqs' = [j \in 1..(Len(add_reqs) - 1) |->
                           IF j < i THEN add_reqs[j] ELSE add_reqs[j + 1]]
        /\ IF AddRefused(req.filename, req.cnt1)
           THEN /\ add_table_no_update
                /\ UNCHANGED accepted
                /\ last' = [cb |-> "on_add_table", ret |-> "no_update"]
           ELSE \E ratio_text \in RatioOf(req.cnt1, req.cnt2) :
                    LET table_data == Append(req.table_data,
                                             ResultRow(req.filename, req.cnt1, req.cnt2,
                                                       ratio_text))
                    IN  /\ results_table' = table_data
                        /\ store_table' = table_data
                        /\ export_disabled' = FALSE
                        /\ accepted' = accepted + 1
                        /\ last' = [cb |-> "on_add_table", ret |-> "update"]
        /\ UNCHANGED <<upload_outs, crop_outs, section_style, apply_outs, sliders,
                       threshold_outs, n_clicks, threshold_reqs, call>>

----------------------------------------------------------------------------
(* Inputs of the model *)

\* Requests of one callback the renderer has in flight at a time.
MaxThresholdReqs == 1
MaxAddReqs == 2
\* Clicks on add-table-btn in one run.
MaxClicks == 2

\* Uploaded images (3 x 3).  ImgWide spans 0..200, which is not skewed;
\* ImgNarrow spans 100..150, which is.
ImgWide == <<<<0, 128, 200>>, <<0, 128, 200>>, <<200, 0, 128>>>>
ImgNarrow == <<<<100, 107, 150>>, <<100, 107, 150>>, <<150, 100, 107>>>>

Upload(img, filename) == [contents |-> [uri |-> [png |-> img]], filename |-> filename]
Uploads ==
    {Upload(ImgWide, "a.png"), Upload(ImgNarrow, ""),
     [contents |-> None, filename |-> NoText]}

Rect(x0, y0, x1, y1) == [x0 |-> x0, y0 |-> y0, x1 |-> x1, y1 |-> y1]
\* Rectangles in half units on a 3 x 3 image: the whole image; its lower
\* right 2 x 2 corner; corners in reverse order, ending on halves; one pixel
\* wide; far outside the image; ending on the halves 0.5, 1.5 and 2.5.
RectFull == Rect(0, 0, 6, 6)
RectInner == Rect(2, 2, 6, 6)
RectReversed == Rect(5, 5, -1, -1)
RectThin == Rect(2, 0, 4, 6)
RectOutside == Rect(-4, 1, 20, 5)
RectHalves == Rect(1, 1, 3, 5)

Relayout(has_shapes, shapes, keys, other) ==
    [has_shapes |-> has_shapes, shapes |-> shapes, keys |-> keys, other |-> other]
ShapeKeys(i, r) == {<<i, "x0", r.x0>>, <<i, "y0", r.y0>>, <<i, "x1", r.x1>>, <<i, "y1", r.y1>>}
RelayoutInputs ==
    {Relayout(FALSE, <<>>, {}, FALSE),
     Relayout(FALSE, <<>>, {}, TRUE),
     Relayout(TRUE, <<>>, {}, FALSE),
     Relayout(TRUE, <<RectFull>>, {}, FALSE),
     Relayout(TRUE, <<RectInner>>, {}, FALSE),
     Relayout(TRUE, <<RectFull, RectThin>>, {}, FALSE),
     Relayout(TRUE, <<RectThin, RectReversed>>, {}, TRUE),
     Relayout(FALSE, <<>>, ShapeKeys(0, RectOutside), FALSE),
     Relayout(FALSE, <<>>, {<<0, "x0", 0>>} \cup ShapeKeys(1, RectHalves), FALSE),
     Relayout(FALSE, <<>>, ShapeKeys(0, RectFull) \cup {<<1, "x1", 4>>}, FALSE)}

\* The options of the kernel-size dropdown.
KernelSizes == {3, 5, 7}

\* Slider positions the user drags to (the sliders start at 128 and 200).
SliderVals == {0, 128, 200}

----------------------------------------------------------------------------
(* The page as a state machine *)

UploadImage == \E u \in Uploads : on_upload(u.contents, u.filename)

DrawShape == \E d \in RelayoutInputs : on_relayout(d)

ClickApply ==
    /\ ApplyRefused(store_original, store_crop_coords)
         \/ Len(threshold_reqs) < MaxThresholdReqs
    /\ \E k \in KernelSizes : on_apply(store_original, store_crop_coords, k)

MoveT1 == Len(threshold_reqs) < MaxThresholdReqs /\ \E v \in SliderVals : move_t1(v)

MoveT2 == Len(threshold_reqs) < MaxThresholdReqs /\ \E v \in SliderVals : move_t2(v)

AnswerThreshold == \E i \in 1..Len(threshold_reqs) : on_threshold(i)

ClickAddTable ==
    /\ n_clicks < MaxClicks
    /\ Len(add_reqs) < MaxAddReqs
    /\ click_add_table

AnswerAddTable == \E i \in 1..Len(add_reqs) : on_add_table(i)

\* A direct call of analyse_histogram on the histogram held in call.
CallAnalyseHistogram ==
    /\ call.fn = "analyse_histogram"
    /\ ~call.done
    /\ call' = [call EXCEPT !.done = TRUE, !.ret = analyse_histogram(call.hist)]
    /\ UNCHANGED <<upload_outs, crop_outs, section_style, apply_outs, sliders,
                   threshold_outs, table_outs, n_clicks, requests, accepted, last>>

\* A direct call of apply_level_adjustment on the grid and bounds held in call.
CallLevelAdjustment ==
    /\ call.fn = "apply_level_adjustment"
    /\ ~call.done
    /\ call' = [call EXCEPT !.done = TRUE,
                            !.ret = apply_level_adjustment(call.arr, call.mn, call.mx)]
    /\ UNCHANGED <<upload_outs, crop_outs, section_style, apply_outs, sliders,
                   threshold_outs, table_outs, n_clicks, requests, accepted, last>>

\* A direct call of apply_median on the grid and kernel size held in call.
CallMedian ==
    /\ call.fn = "apply_median"
    /\ ~call.done
    /\ call' = [call EXCEPT !.done = TRUE,
                            !.ret = apply_median(call.arr, call.kernel_size)]
    /\ UNCHANGED <<upload_outs, crop_outs, section_style, apply_outs, sliders,
                   threshold_outs, table_outs, n_clicks, requests, accepted, last>>

Init == PageLoad /\ call = NoCall

Next ==
    \/ UploadImage
    \/ DrawShape
    \/ ClickApply
    \/ MoveT1
    \/ MoveT2
    \/ AnswerThreshold
    \/ ClickAddTable
    \/ AnswerAddTable

\* The whole page.  The specifications below are its parts: each keeps the
\* callbacks one group of properties depends on.
Spec == Init /\ [][Next]_vars

----------------------------------------------------------------------------
(* Upload, crop and apply *)

NextApply ==
    \/ UploadImage
    \/ DrawShape
    \/ ClickApply

SpecApply == Init /\ [][NextApply]_vars

----------------------------------------------------------------------------
(* A session on the whole page: uploads, a rectangle drawn around the      *)
(* whole image, apply with the kernel size the dropdown starts with and    *)
(* add-to-table clicks, every request answered at any later time.  The     *)
(* sliders stay where on_apply puts them.  add-table-btn is inside         *)
(* section-threshold and can be clicked only while that section is shown.  *)

SessionKernel == 3

SessionDraw == on_relayout(Relayout(TRUE, <<RectFull>>, {}, FALSE))

SessionApply ==
    /\ ApplyRefused(store_original, store_crop_coords)
         \/ Len(threshold_reqs) < MaxThresholdReqs
    /\ on_apply(store_original, store_crop_coords, SessionKernel)

SessionAddTable == section_style.threshold = Shown /\ ClickAddTable

NextSession ==
    \/ UploadImage
    \/ SessionDraw
    \/ SessionApply
    \/ AnswerThreshold
    \/ SessionAddTable
    \/ AnswerAddTable

SpecSession == Init /\ [][NextSession]_vars

----------------------------------------------------------------------------
(* on_threshold on every adjusted grid and pair of cutoffs of a bounded    *)
(* set: the page after an apply that stored the grid and slider drags to   *)
(* the cutoffs, the on_threshold request in flight.  Of the page only the  *)
(* properties on_threshold reads are set; the rest is as loaded.           *)

PixelVals == {0, 128, 200, 255}
Grids == {<<<<a, b>>, <<c, d>>>> : a \in PixelVals, b \in PixelVals, c \in {0, 200}, d \in {128, 255}}
       \cup {<<<<a, b>>>> : a \in PixelVals, b \in PixelVals}
Cutoffs == {0, 127, 128, 200, 254, 255}

InitThreshold ==
    /\ LoadUpload
    /\ LoadCrop
    /\ section_style = [filter |-> Hidden, level |-> Hidden, threshold |-> Hidden]
    /\ store_histogram_raw = None
    /\ cropped_img = None
    /\ filtered_img = None
    /\ adjustment_info = "info-box"
    /\ t1_slider \in Cutoffs
    /\ t2_slider \in Cutoffs
    /\ \/ store_adjusted = None /\ store_histogram = None
       \/ \E g \in Grids :
            /\ store_adjusted = arr_to_b64(g)
            /\ store_histogram = compute_histogram(g)
    /\ LoadThreshold
    /\ LoadTable
    /\ threshold_reqs = <<ThresholdRequest(t1_slider, t2_slider, store_adjusted,
                                           store_histogram)>>
    /\ add_reqs = <<>>
    /\ NoEvent
    /\ call = NoCall

NextThreshold == AnswerThreshold

SpecThreshold == InitThreshold /\ [][NextThreshold]_vars

----------------------------------------------------------------------------
(* on_add_table on the filenames and counts of a bounded set: the page     *)
(* with the properties on_add_table reads set (no file yet; a file and no  *)
(* counts yet; a file and the counts of an analysis), the rest as loaded.  *)

CountVals == {0, 1, 3, 32, 400, 1000}
Filenames == {"a.png", "unknown"}

InitTable ==
    /\ store_original = None
    /\ crop_area_style = Hidden
    /\ LoadCrop
    /\ LoadApply
    /\ binary1_img = None
    /\ binary2_img = None
    /\ diff_img = None
    /\ diff_count = Dash
    /\ t1_display = <<"1", "2", "8">>
    /\ t2_display = <<"2", "0", "0">>
    /\ \/ /\ store_filename = NoText
          /\ white_count_1 = Dash
          /\ white_count_2 = Dash
       \/ /\ store_filename \in Filenames
          /\ white_count_1 = Dash
          /\ white_count_2 = Dash
       \/ /\ store_filename \in Filenames
          /\ \E c1 \in CountVals, c2 \in CountVals :
                /\ white_count_1 = fmt_comma(c1)
                /\ white_count_2 = fmt_comma(c2)
    /\ LoadTable
    /\ threshold_reqs = <<>>
    /\ add_reqs = <<>>
    /\ NoEvent
    /\ call = NoCall

NextTable ==
    \/ ClickAddTable
    \/ AnswerAddTable

SpecTable == InitTable /\ [][NextTable]_vars

----------------------------------------------------------------------------
(* analyse_histogram on the histograms of a bounded set *)

HistLevels == {0, 3, 100, 255}
HistCounts == {0, 1, 99, 200}
Histograms ==
    {[i \in 0..(Levels - 1) |-> IF i \in HistLevels THEN f[i] ELSE 0] :
        f \in [HistLevels -> HistCounts]}

InitHist ==
    /\ PageLoad
    /\ \E h \in Histograms :
          call = [fn |-> "analyse_histogram", hist |-> h, done |-> FALSE, ret |-> None]

NextHist == CallAnalyseHistogram

SpecHist == InitHist /\ [][NextHist]_vars

----------------------------------------------------------------------------
(* apply_level_adjustment on every pixel value, under bounds of a bounded  *)
(* set: the grid <<v, 255 - v>> for each v, so that every value of 0..255  *)
(* is adjusted under every pair of bounds.                                 *)

LevelGrids == {<<<<v, (Levels - 1) - v>>>> : v \in 0..(Levels - 1)}
LevelBounds == {<<0, 255>>, <<0, 254>>, <<1, 255>>, <<100, 150>>, <<128, 128>>}

InitLevel ==
    /\ PageLoad
    /\ \E g \in LevelGrids, b \in LevelBounds :
          call = [fn |-> "apply_level_adjustment", arr |-> g, mn |-> b[1], mx |-> b[2],
                  done |-> FALSE, ret |-> None]

NextLevel == CallLevelAdjustment

SpecLevel == InitLevel /\ [][NextLevel]_vars

----------------------------------------------------------------------------
(* apply_median on the grids of a bounded set, with each kernel size of    *)
(* the dropdown: every 2 x 2 grid over three values, rows and columns of   *)
(* three pixels, the 4 x 4 grid of 128s, 3 x 3 grids with an outlier in a  *)
(* corner, on an edge and in the middle, and the uploaded images.          *)

MedianVals == {0, 128, 255}
Uniform4 == [y \in 1..4 |-> [x \in 1..4 |-> 128]]
Outlier(oy, ox) == [y \in 1..3 |-> [x \in 1..3 |-> IF y = oy /\ x = ox THEN 255 ELSE 7]]
MedianGrids ==
    {<<<<a, b>>, <<c, d>>>> : a \in MedianVals, b \in MedianVals,
                              c \in MedianVals, d \in MedianVals}
    \cup {<<<<a, b, c>>>> : a \in MedianVals, b \in MedianVals, c \in MedianVals}
    \cup {<<<<a>>, <<b>>, <<c>>>> : a \in MedianVals, b \in MedianVals, c \in MedianVals}
    \cup {Uniform4, Outlier(1, 1), Outlier(1, 2), Outlier(2, 2), ImgWide, ImgNarrow}

InitMedian ==
    /\ PageLoad
    /\ \E g \in MedianGrids, k \in KernelSizes :
          call = [fn |-> "apply_median", arr |-> g, kernel_size |-> k,
                  done |-> FALSE, ret |-> None]

NextMedian == CallMedian

SpecMedian == InitMedian /\ [][NextMedian]_vars

----------------------------------------------------------------------------
(* Properties of on_threshold (SpecThreshold) *)

\* The grid of an image shown on the page.
ShownGrid(img) == b64_to_arr(img.uri)

\* Pixels that are v1 in bin1 and v2 in bin2.
ClassCount(bin1, bin2, v1, v2) ==
    Cardinality({p \in Pixels(bin1) : bin1[p[1]][p[2]] = v1 /\ bin2[p[1]][p[2]] = v2})

\* C1: once on_threshold has answered, every pixel of the two binary images
\* is in exactly one of the classes both-white, both-black, white-in-1-only,
\* white-in-2-only: the four class counts sum to H x W, and the white count
\* shown for t1 is the both-white count plus the white-in-1-only count (the
\* diff count shown).
C1_FourClasses ==
    binary1_img # None =>
        LET bin1 == ShownGrid(binary1_img)
            bin2 == ShownGrid(binary2_img)
            both_white == ClassCount(bin1, bin2, 255, 255)
            both_black == ClassCount(bin1, bin2, 0, 0)
            white_1_only == ClassCount(bin1, bin2, 255, 0)
            white_2_only == ClassCount(bin1, bin2, 0, 255)
        IN  /\ Height(bin1) = Height(b64_to_arr(store_adjusted))
            /\ Width(bin1) = Width(b64_to_arr(store_adjusted))
            /\ both_white + both_black + white_1_only + white_2_only
                 = Height(bin1) * Width(bin1)
            /\ parse_int(remove_commas(white_count_1)) = both_white + white_1_only
            /\ parse_int(remove_commas(diff_count)) = white_1_only

\* on_threshold has answered with t1 > t2 on a grid that has a both-white,
\* a both-black and a white-in-2-only pixel.
C1_Witness ==
    /\ binary1_img # None
    /\ parse_int(t1_display) > parse_int(t2_display)
    /\ ClassCount(ShownGrid(binary1_img), ShownGrid(binary2_img), 255, 255) > 0
    /\ ClassCount(ShownGrid(binary1_img), ShownGrid(binary2_img), 0, 0) > 0
    /\ ClassCount(ShownGrid(binary1_img), ShownGrid(binary2_img), 0, 255) > 0

\* C6: thresholding a thresholded grid again with the same cutoff gives the
\* same binary grid: for each binary image on the page and the cutoff shown
\* for it, apply_threshold leaves the image as it is.
C6_ThresholdIdempotent ==
    binary1_img # None =>
        /\ apply_threshold(ShownGrid(binary1_img), parse_int(t1_display))
             = ShownGrid(binary1_img)
        /\ apply_threshold(ShownGrid(binary2_img), parse_int(t2_display))
             = ShownGrid(binary2_img)

\* A binary image with a white and a black pixel is on the page, and one
\* made with the cutoff 255.
C6_Witness ==
    /\ binary1_img # None
    /\ \E p \in Pixels(ShownGrid(binary1_img)) : ShownGrid(binary1_img)[p[1]][p[2]] = 255
    /\ \E p \in Pixels(ShownGrid(binary1_img)) : ShownGrid(binary1_img)[p[1]][p[2]] = 0
    /\ parse_int(t2_display) = 255

----------------------------------------------------------------------------
(* Properties of analyse_histogram (SpecHist) *)

\* C2: for a histogram with total > 0, min_val is the smallest i whose
\* cumulative count over bins 0..i is at least 1% of the total, and max_val
\* the largest i whose cumulative count over bins i..255 is.
C2_PercentileBounds ==
    (call.fn = "analyse_histogram" /\ call.done) =>
        LET hist == call.hist
            total == SumRange(hist, 0, 255)
            lows == {i \in 0..255 : 100 * SumRange(hist, 0, i) >= total}
            highs == {i \in 0..255 : 100 * SumRange(hist, i, 255) >= total}
        IN  total > 0 =>
                /\ call.ret.min_val \in lows
                /\ \A i \in lows : call.ret.min_val <= i
                /\ call.ret.max_val \in highs
                /\ \A i \in highs : i <= call.ret.max_val

\* analyse_histogram has returned bounds that trim a tail on each side: a
\* lower bin and a higher bin hold pixels, each under 1% of the total.
C2_Witness ==
    /\ call.fn = "analyse_histogram"
    /\ call.done
    /\ \E i \in 0..255 : i < call.ret.min_val /\ call.hist[i] > 0
    /\ \E i \in 0..255 : i > call.ret.max_val /\ call.hist[i] > 0

\* C3: for a histogram with total > 0, min_val <= max_val.
C3_MinBelowMax ==
    (call.fn = "analyse_histogram" /\ call.done /\ SumRange(call.hist, 0, 255) > 0) =>
        call.ret.min_val <= call.ret.max_val

\* analyse_histogram has returned min_val = max_val for a histogram with
\* pixels in three bins: both tails are trimmed down to the same bin.
C3_Witness ==
    /\ call.fn = "analyse_histogram"
    /\ call.done
    /\ call.ret.min_val = call.ret.max_val
    /\ Cardinality({i \in 0..255 : call.hist[i] > 0}) = 3

----------------------------------------------------------------------------
(* Properties of on_apply (SpecApply) *)

\* The bounds analyse_histogram gives for the histogram of the filtered grid
\* on the page.
FilteredBounds == analyse_histogram(compute_histogram(ShownGrid(filtered_img)))

\* C4: where on_apply stretched the filtered grid with min_val < max_val,
\* every adjusted pixel is clamp((v - min_val) / (max_val - min_val) * 255,
\* 0, 255) rounded to the nearest integer.
C4_RoundsToNearest ==
    store_adjusted # None =>
        LET filtered == ShownGrid(filtered_img)
            adjusted == b64_to_arr(store_adjusted)
            bounds == FilteredBounds
            mn == bounds.min_val
            r == bounds.max_val - bounds.min_val
        IN  (r > 0 /\ r < 200) =>
                \A p \in Pixels(filtered) :
                    LET a == (filtered[p[1]][p[2]] - mn) * 255
                        out == adjusted[p[1]][p[2]]
                    IN  IF a <= 0 THEN out = 0
                        ELSE IF a >= 255 * r THEN out = 255
                        ELSE 2 * (out * r - a) <= r /\ 2 * (a - out * r) <= r

\* C5: the adjusted grid on_apply stores is the contrast stretch of the
\* filtered grid exactly when the bounds of the filtered grid's histogram
\* are less than 200 apart; in every other case it is the filtered grid,
\* pixel for pixel.
C5_StretchIffSkewed ==
    store_adjusted # None =>
        LET filtered == ShownGrid(filtered_img)
            adjusted == b64_to_arr(store_adjusted)
            bounds == FilteredBounds
        IN  /\ store_histogram_raw = compute_histogram(filtered)
            /\ IF bounds.max_val - bounds.min_val < 200
               THEN /\ adjusted = apply_level_adjustment(filtered, bounds.min_val,
                                                         bounds.max_val)
                    /\ adjustment_info = "info-box warning visible"
               ELSE /\ adjusted = filtered
                    /\ adjustment_info = "info-box info visible"

\* on_apply has stored a stretched grid that differs from the filtered one.
C5_Witness ==
    /\ store_adjusted # None
    /\ adjustment_info = "info-box warning visible"
    /\ b64_to_arr(store_adjusted) # ShownGrid(filtered_img)

\* The crop rectangle on the page, once ordered, rounded and clamped to the
\* image, is less than 2 wide or less than 2 high.
CropTooSmall ==
    IF store_original = None \/ store_crop_coords = None
    THEN FALSE
    ELSE LET original == b64_to_arr(store_original)
             box == CropBox(store_crop_coords, Height(original), Width(original))
         IN  box.x1 - box.x0 < 2 \/ box.y1 - box.y0 < 2

\* C10: a click on apply with such a rectangle leaves every output of
\* on_apply as it is (the adjusted grid, both histograms, the images, the
\* sliders, the section styles) and sends no on_threshold request.
C10_SmallCropIsNoOp ==
    [][(CropTooSmall /\ last'.cb = "on_apply")
          => UNCHANGED <<apply_outs, section_style, sliders, threshold_reqs>>]_vars

\* on_apply has returned no_update for a stored rectangle that is too small,
\* after an earlier apply had stored an adjusted grid.
C10_Witness ==
    /\ last = [cb |-> "on_apply", ret |-> "no_update"]
    /\ CropTooSmall
    /\ store_adjusted # None

----------------------------------------------------------------------------
(* Properties of on_add_table (SpecTable) *)

IsDigit(c) == \E d \in 0..9 : Digits[d + 1] = c

\* txt without its minus sign.
Unsigned(txt) == IF Head(txt) = "-" THEN Tail(txt) ELSE txt

\* txt is a number shown with two decimals: [-]digits.dd
IsTwoDecimals(txt) ==
    LET body == Unsigned(txt)
        n == Len(body)
    IN  /\ n >= 4
        /\ body[n - 2] = "."
        /\ \A i \in (1..n) \ {n - 2} : IsDigit(body[i])

\* The magnitude of such a text, in hundredths.
HundredthsShown(txt) ==
    LET body == Unsigned(txt)
        n == Len(body)
    IN  100 * ParseNat(SubSeq(body, 1, n - 3), 0)
        + 10 * DigitVal(body[n - 1]) + DigitVal(body[n])

Abs(x) == IF x < 0 THEN -x ELSE x

\* C7: every row of the table holds the filename and the two counts of the
\* page, diff = count1 - count2, and as ratio diff / count1 * 100 shown with
\* two decimals (a nearest hundredth, with the sign of diff) when count1 > 0
\* and 0.00 when count1 = 0.
C7_RowFields ==
    \A k \in 1..Len(store_table) :
        LET row == store_table[k]
            c1 == parse_int(remove_commas(row.count1))
            c2 == parse_int(remove_commas(row.count2))
            d == parse_int(remove_commas(row.diff))
        IN  /\ row.filename = store_filename
            /\ row.count1 = white_count_1
            /\ row.count2 = white_count_2
            /\ d = c1 - c2
            /\ IsTwoDecimals(row.ratio)
            /\ IF c1 > 0
               THEN /\ 2 * Abs(HundredthsShown(row.ratio) * c1 - 10000 * Abs(d)) <= c1
                    /\ (Head(row.ratio) = "-") <=> (d < 0)
               ELSE row.ratio = <<"0", ".", "0", "0">>

\* The row of the counts 1,000 and 400: diff 600, ratio 60.00.
C7_Witness ==
    \E k \in 1..Len(store_table) :
        /\ store_table[k].count1 = <<"1", ",", "0", "0", "0">>
        /\ store_table[k].count2 = <<"4", "0", "0">>
        /\ store_table[k].diff = <<"6", "0", "0">>
        /\ store_table[k].ratio = <<"6", "0", ".", "0", "0">>

\* C8: an on_add_table call made with an empty filename or with no count
\* yet leaves the table, its store and the export button as they are.
C8_RefusedAddIsNoOp ==
    [][\A i \in 1..Len(add_reqs) :
          (/\ last'.cb = "on_add_table"
           /\ Len(add_reqs') = Len(add_reqs) - 1
           /\ \A j \in 1..Len(add_reqs') :
                 add_reqs'[j] = IF j < i THEN add_reqs[j] ELSE add_reqs[j + 1]
           /\ \/ add_reqs[i].filename \in {NoText, ""}
              \/ add_reqs[i].cnt1 = Dash)
          => UNCHANGED <<results_table, store_table, export_disabled>>]_vars

\* on_add_table has returned no_update on a page with a file and no count
\* yet, after two clicks.
C8_Witness ==
    /\ last = [cb |-> "on_add_table", ret |-> "no_update"]
    /\ store_filename # NoText
    /\ white_count_1 = Dash
    /\ n_clicks = 2
    /\ add_reqs = <<>>
    /\ store_table = <<>>
    /\ export_disabled

\* C9: after n on_add_table calls that appended a row, the table has n rows.
C9_OneRowPerAcceptedCall == Len(store_table) = accepted

----------------------------------------------------------------------------
(* Properties of apply_level_adjustment (SpecLevel) *)

\* C11: apply_level_adjustment with min_val = 0 and max_val = 255 returns
\* the grid it was given: every pixel value v of 0..255 comes out as v.
C11_FullRangeIsIdentity ==
    (call.fn = "apply_level_adjustment" /\ call.done /\ call.mn = 0 /\ call.mx = 255) =>
        /\ Height(call.ret) = Height(call.arr)
        /\ Width(call.ret) = Width(call.arr)
        /\ \A p \in Pixels(call.arr) : call.ret[p[1]][p[2]] = call.arr[p[1]][p[2]]

\* apply_level_adjustment(arr, 0, 255) has returned for a grid that holds the
\* value 254, the one a floor of 254 / 255 * 255 taken short would lower.
C11_Witness ==
    /\ call.fn = "apply_level_adjustment"
    /\ call.done
    /\ call.mn = 0
    /\ call.mx = 255
    /\ call.arr = <<<<254, 1>>>>
    /\ call.ret = <<<<254, 1>>>>

----------------------------------------------------------------------------
(* Properties of apply_median (SpecMedian) *)

\* The values of arr at the positions of the grid within k \div 2 rows and
\* columns of (y, x): the k x k neighbourhood of the position, cut at the
\* border of the grid.
Neighbourhood(arr, y, x, k) ==
    {arr[yy][xx] : yy \in MaxOf(1, y - (k \div 2)) .. MinOf(Height(arr), y + (k \div 2)),
                   xx \in MaxOf(1, x - (k \div 2)) .. MinOf(Width(arr), x + (k \div 2))}

\* C12: apply_median(G, k) has the height and width of G, and every output
\* pixel lies between the minimum and the maximum of the k x k neighbourhood
\* of its position in G; a grid of one value is returned unchanged.
C12_MedianWithinNeighbourhood ==
    (call.fn = "apply_median" /\ call.done) =>
        /\ Height(call.ret) = Height(call.arr)
        /\ \A y \in 1..Height(call.arr) : Len(call.ret[y]) = Len(call.arr[y])
        /\ \A p \in Pixels(call.arr) :
              LET nb == Neighbourhood(call.arr, p[1], p[2], call.kernel_size)
              IN  /\ \E lo \in nb : lo <= call.ret[p[1]][p[2]]
                  /\ \E hi \in nb : call.ret[p[1]][p[2]] <= hi
        /\ (\A p \in Pixels(call.arr) : call.arr[p[1]][p[2]] = call.arr[1][1])
              => call.ret = call.arr

\* apply_median has returned the 4 x 4 grid of 128s for that grid and k = 3.
C12_Witness ==
    /\ call.fn = "apply_median"
    /\ call.done
    /\ call.kernel_size = 3
    /\ call.arr = Uniform4
    /\ call.ret = Uniform4

----------------------------------------------------------------------------
(* Properties of a session (SpecSession) *)

\* The filename on_upload stores for an upload.
StoredName(u) == IF u.filename = NoText \/ u.filename = "" THEN "unknown" ELSE u.filename

\* The adjusted grid on_apply stores for an image, the rectangle and the
\* kernel size of a session.
SessionAdjusted(img) ==
    LET box == CropBox(RectFull, Height(img), Width(img))
        filtered == apply_median(crop_slice(img, box), SessionKernel)
        analysis == analyse_histogram(compute_histogram(filtered))
    IN  IF analysis.skewed
        THEN apply_level_adjustment(filtered, analysis.min_val, analysis.max_val)
        ELSE filtered

\* The pair of count texts on_threshold shows for an adjusted grid with the
\* sliders where on_apply puts them.
SessionCounts(adjusted) ==
    <<fmt_comma(count_white(apply_threshold(adjusted, 128))),
      fmt_comma(count_white(apply_threshold(adjusted, 200)))>>

\* C13: every row of the table pairs its filename with counts on_threshold
\* computed from the adjusted grid of an image uploaded under that filename:
\* no row carries one image's filename with the counts of another image.
C13_RowCountsOfSameImage ==
    \A k \in 1..Len(store_table) :
        \E u \in Uploads :
            /\ u.contents # None
            /\ StoredName(u) = store_table[k].filename
            /\ <<store_table[k].count1, store_table[k].count2>>
                  = SessionCounts(SessionAdjusted(decode_upload_to_gray(u.contents)))

----------------------------------------------------------------------------
(* The diff count of on_threshold and the diff of a table row (SpecThreshold) *)

\* The diff field on_add_table would write for the counts on the page.
RowDiffOfPage ==
    parse_int(remove_commas(ResultRow(store_filename, white_count_1, white_count_2, <<>>).diff))

\* C14: once on_threshold has answered, the diff count shown (pixels white
\* at t1 and black at t2) is max(0, count1 - count2) for the two white
\* counts shown; it equals the diff a table row would hold exactly when
\* t1 <= t2 or the two counts are equal, and it is 0 whenever t1 >= t2.
C14_DiffCountIsPositivePart ==
    binary1_img # None =>
        LET c1 == parse_int(remove_commas(white_count_1))
            c2 == parse_int(remove_commas(white_count_2))
            d == parse_int(remove_commas(diff_count))
            t1 == parse_int(t1_display)
            t2 == parse_int(t2_display)
        IN  /\ d = MaxOf(0, c1 - c2)
            /\ (d = RowDiffOfPage) <=> (t1 <= t2 \/ c1 = c2)
            /\ t1 >= t2 => d = 0

\* on_threshold has answered with t1 > t2 and fewer white pixels at t1 than
\* at t2: the diff count is 0 and the diff of a row would be negative.
C14_Witness ==
    /\ binary1_img # None
    /\ parse_int(t1_display) > parse_int(t2_display)
    /\ parse_int(remove_commas(white_count_1)) < parse_int(remove_commas(white_count_2))
    /\ diff_count = <<"0">>
    /\ RowDiffOfPage < 0

----------------------------------------------------------------------------
(* The apply button and the stored rectangle (SpecApply) *)

\* C15: in every state reached by uploads and by relayout events (a shape
\* drawn, a shape moved, the shapes erased), apply-btn is enabled exactly
\* when store-crop-coords holds a rectangle; an upload that stored an image
\* leaves the button disabled and no rectangle stored.
C15_ApplyEnabledIffCropStored ==
    /\ apply_disabled <=> (store_crop_coords = None)
    /\ last = [cb |-> "on_upload", ret |-> "update"] =>
          (apply_disabled /\ store_crop_coords = None)

\* An upload has cleared a stored rectangle: an image with an applied crop
\* is replaced, the button is disabled and no rectangle is stored.
C15_Witness ==
    /\ last = [cb |-> "on_upload", ret |-> "update"]
    /\ store_adjusted # None
    /\ apply_disabled
    /\ store_crop_coords = None

====
